---- MODULE Spec2Model ----
(***************************************************************************)
(* Interview lifecycle state machine and per-message conversation pipeline *)
(* of the ai-interviewer backend (backend/app).                            *)
(*                                                                         *)
(* One interview row and its message table are modelled, together with two *)
(* request slots that run the service operations step by step: every      *)
(* "await db.execute" (load) and "await db.commit()" (persist) of a        *)
(* service method is one step, so that requests can overlap exactly where  *)
(* the event loop can switch between them.  Collaborator (LLM agent) calls *)
(* touch no shared state; their outcome (a result, or a failure) is drawn  *)
(* in the step that uses it.                                               *)
(***************************************************************************)
EXTENDS Integers, Sequences, FiniteSets, TLC

\* ------------------------------------------------------------------ bounds
MaxTargetQuestions == 3
MaxMessages == 6
MaxTime == 72
MaxOverlaps == 1
MaxSessions == 3

\* the clock advances in steps of HoursPerTick hours, up to MaxTime
HoursPerTick == 72

\* ------------------------------------------------------- program constants
TokenTTLHours == 48
FastResponseMs == 5000
StyleContextSize == 3

Procs == {"r1", "r2"}

\* Python None for the nullable columns and attributes
None == "None"
NoExpiry == -1
NoneRT == -1

\* ------------------------------------------------ utils/state_machine.py
InterviewStatus == {"DRAFT", "READY", "ASSIGNED", "IN_PROGRESS", "COMPLETED"}

\* variant: the table also lets DRAFT skip to ASSIGNED
TRANSITIONS_skip ==
    [s \in InterviewStatus |->
        CASE s = "DRAFT" -> {"READY", "ASSIGNED"}
          [] s = "READY" -> {"ASSIGNED"}
          [] s = "ASSIGNED" -> {"IN_PROGRESS"}
          [] s = "IN_PROGRESS" -> {"COMPLETED"}
          [] s = "COMPLETED" -> {}]

TRANSITIONS ==
    [s \in InterviewStatus |->
        CASE s = "DRAFT" -> {"READY"}
          [] s = "READY" -> {"ASSIGNED"}
          [] s = "ASSIGNED" -> {"IN_PROGRESS"}
          [] s = "IN_PROGRESS" -> {"COMPLETED"}
          [] s = "COMPLETED" -> {}]

\* variant: the COMPLETED precondition is missing
PRECONDITIONS_noreport(interview, new_status) ==
    CASE new_status = "READY" -> interview.match_analysis_json # None
      [] new_status = "ASSIGNED" -> interview.candidate_link_token # None
      [] OTHER -> TRUE

\* PRECONDITIONS.get(new_status) applied to the interview; a target without
\* an entry (DRAFT) has no precondition
PRECONDITIONS(interview, new_status) ==
    CASE new_status = "READY" -> interview.match_analysis_json # None
      [] new_status = "ASSIGNED" -> interview.candidate_link_token # None
      [] new_status = "IN_PROGRESS" -> TRUE
      [] new_status = "COMPLETED" -> interview.report_json # None
      [] OTHER -> TRUE

can_transition(current_status, new_status) ==
    new_status \in TRANSITIONS[current_status]

\* variant: only the precondition is checked, not the table
validate_transition_nocheck(interview, new_status) ==
    IF ~PRECONDITIONS(interview, new_status)
    THEN "precondition_not_met"
    ELSE "ok"

\* "ok", or the StateTransitionError that validate_transition raises
validate_transition(interview, new_status) ==
    IF ~can_transition(interview.status, new_status)
    THEN "invalid_transition"
    ELSE IF ~PRECONDITIONS(interview, new_status)
         THEN "precondition_not_met"
         ELSE "ok"

\* variant: status is assigned before validation
transition_assign_first(interview, new_status) ==
    [interview EXCEPT !.status = new_status]

\* the interview object after transition(): status is assigned only when
\* validate_transition did not raise
transition(interview, new_status) ==
    IF validate_transition(interview, new_status) = "ok"
    THEN [interview EXCEPT !.status = new_status]
    ELSE interview


\* ------------------------------------------------------------ state
VARIABLES
    interview,          \* the persisted interviews row, or NoInterview
    token_expires_at,   \* Interview.token_expires_at: set by assign_interview on
                        \* the ORM object only (models/interview.py maps no such
                        \* column), NoExpiry while unset
    messages,           \* the persisted messages rows, in timestamp order
    now,                \* the clock, in hours
    req,                \* per request slot: operation, position, locals, outcome
    overlaps,           \* how many requests arrived while another was in flight
    unit,               \* state-machine unit harness: one transition() call
    sessions            \* interviews-table harness: the rows of several
                        \* sessions and each one's assign_interview call

vars ==
    <<interview, token_expires_at, messages, now, req, overlaps, unit, sessions>>

\* models/interview.py: the mapped columns of a row
NewInterview(tq, diff) ==
    [status |-> "DRAFT",
     documents |-> None,
     match_analysis_json |-> None,
     target_questions |-> tq,
     difficulty_start |-> diff,
     candidate_link_token |-> None,
     report_json |-> None]

\* no row (scalar_one_or_none() returns None)
NoInterview == [NewInterview(0, 0) EXCEPT !.status = None]

\* models/message.py: a messages row built by create_message
Message(role, content, qn, score, cheat, telemetry) ==
    [role |-> role,
     content |-> content,
     question_number |-> qn,
     answer_quality_score |-> score,
     cheat_certainty |-> cheat,
     telemetry |-> telemetry]

\* content values: a kind and the text it carries
Text(kind, text) == [kind |-> kind, text |-> text]
ClosingText == Text("closing", "thank_you")

\* schemas/message.py Telemetry, as <<paste_detected, response_time_ms>>;
\* <<>> is a message without telemetry
Telemetries ==
    {<<FALSE, 5000>>, <<FALSE, 3000>>, <<TRUE, 5000>>, <<FALSE, NoneRT>>}

\* the telemetry inputs drawn while requests may overlap
OverlapTelemetries == {<<FALSE, 5000>>, <<FALSE, 3000>>}
CandidateTexts == {"a"}
QuestionTexts == {"q"}
Scores == {7}
CheatCertainties == {40}
Difficulties == {3, 5}

\* the <<target_questions, difficulty_start>> inputs of create_interview:
\* every length, each with one of the difficulties
Configurations ==
    {c \in (1..MaxTargetQuestions) \X Difficulties :
        c[2] = IF c[1] % 2 = 0 THEN 3 ELSE 5}

NoText == Text("none", "none")
NoScore == 0
NoCheat == -1

\* the collaborator calls a request made so far
NoCalls == [classify |-> 0, evaluate |-> 0, integrity |-> 0, generate |-> 0]

\* the question_scores and telemetry_summary arguments of generate_report
NoReportInputs ==
    [question_scores |-> <<>>,
     telemetry_summary |-> [total |-> 0, paste_events |-> 0]]

Idle ==
    [op |-> "idle", pc |-> "idle", iv |-> NoInterview, nmsgs |-> 0,
     last_question |-> NoText, question_number |-> 0,
     token |-> None, telemetry |-> <<>>,
     cls |-> None, complete |-> FALSE,
     calls |-> NoCalls, context |-> <<>>, difficulty |-> 0,
     txn |-> 0, began |-> 0, history |-> <<>>, chat_history |-> <<>>,
     report_inputs |-> NoReportInputs, paths |-> None,
     persisted |-> 0, outcome |-> None]

Begin(op) == [Idle EXCEPT !.op = op]

IsIdle(p) == req[p].op = "idle"

\* a request that ended: its response is kept until it is returned, its
\* locals are gone
Done(r, outcome) ==
    [Idle EXCEPT !.op = r.op, !.pc = "done", !.outcome = outcome,
                 !.token = r.token, !.telemetry = r.telemetry,
                 !.cls = r.cls, !.complete = r.complete,
                 !.calls = r.calls, !.context = r.context,
                 !.difficulty = r.difficulty,
                 !.chat_history = r.chat_history,
                 !.report_inputs = r.report_inputs,
                 !.persisted = r.persisted]

\* the list MessageService.get_messages returned to the request (the local
\* variable messages of process_candidate_message), nmsgs rows
Snapshot(p) == req[p].history

\* variant: the role is not tested
IsQuestion_anyrole(m) == m.question_number # 0

\* the test of the current-question scan and of the questions-asked count
IsQuestion(m) == m.role = "assistant" /\ m.question_number # 0

RECURSIVE LastQuestionIndex(_, _)
\* the reversed() scan of process_candidate_message: index of the last
\* assistant message with a truthy question_number among the first n, else 0
LastQuestionIndex(msgs, n) ==
    IF n = 0 THEN 0
    ELSE IF IsQuestion(msgs[n]) THEN n
         ELSE LastQuestionIndex(msgs, n - 1)

\* variant: every assistant message is counted
QuestionsAsked_all(msgs) ==
    Cardinality({i \in 1..Len(msgs) : msgs[i].role = "assistant"})

QuestionsAsked(msgs) ==
    Cardinality({i \in 1..Len(msgs) : IsQuestion(msgs[i])})

\* variant: the row is inserted twice
create_message_twice(msgs, m, older) ==
    SubSeq(msgs, 1, older) \o <<m, m>> \o SubSeq(msgs, older + 1, Len(msgs))

\* MessageService.create_message: the row is added and committed.  Its
\* timestamp is the server default now(), the start of the transaction that
\* inserts it, so read back in timestamp order (get_messages) the row stands
\* after the `older` rows whose transactions began before that one
create_message(msgs, m, older) ==
    SubSeq(msgs, 1, older) \o <<m>> \o SubSeq(msgs, older + 1, Len(msgs))

\* the db session of request p begins a transaction (the first statement of
\* the request, or the refresh that follows a commit): the n rows persisted
\* so far are older than it, and so is every transaction still open
BeginTransaction(rq, p, n) ==
    [q \in Procs |->
        IF q = p
        THEN [rq[q] EXCEPT
                 !.txn = n,
                 !.began = IF \E o \in Procs \ {p} : rq[o].began # 0
                           THEN 2 ELSE 1]
        ELSE IF rq[q].began # 0 THEN [rq[q] EXCEPT !.began = 1] ELSE rq[q]]

\* request p committed a row: it is older than the next row of every
\* transaction that began after p's
RowCommitted(rq, p) ==
    [q \in Procs |->
        IF q # p /\ rq[q].began > rq[p].began
        THEN [rq[q] EXCEPT !.txn = @ + 1]
        ELSE rq[q]]

IsCandidate(m) == m.role = "candidate"

\* previous_answers of the Answer branch: the content of every candidate
\* message of the loaded history
PreviousAnswers(msgs) ==
    LET cs == SelectSeq(msgs, IsCandidate)
    IN [i \in 1..Len(cs) |-> cs[i].content.text]

\* the Python slice seq[-n:]
LastN(seq, n) ==
    IF Len(seq) <= n THEN seq ELSE SubSeq(seq, Len(seq) - n + 1, Len(seq))

\* what IntegrityJudgmentAgent.assess formats as style-comparison context
IntegrityContext(msgs) == LastN(PreviousAnswers(msgs), StyleContextSize)


Found == interview.status # None

\* ------------------------------------------ services/interview_service.py

\* create_interview: db.add + commit of a DRAFT row
create_interview(p, tq, diff) ==
    /\ IsIdle(p)
    /\ ~Found
    /\ interview' = NewInterview(tq, diff)
    /\ req' = [req EXCEPT ![p] = Done(Begin("create"), "ok")]
    /\ UNCHANGED <<token_expires_at, messages, now, unit, sessions>>

\* upload_documents, up to the commit: load the row, require DRAFT
upload_documents_load(p) ==
    /\ IsIdle(p)
    /\ req' = [req EXCEPT ![p] =
                 IF ~Found THEN Done(Begin("upload"), "not_found")
                 ELSE IF interview.status # "DRAFT"
                      THEN Done(Begin("upload"), "not_draft")
                      ELSE [Begin("upload") EXCEPT !.pc = "upload_commit"]]
    /\ UNCHANGED <<interview, token_expires_at, messages, now, unit, sessions>>

\* upload_documents: commit of the three document paths (one set of files)
upload_documents_commit(p) ==
    /\ req[p].pc = "upload_commit"
    /\ interview' = [interview EXCEPT !.documents = "files1"]
    /\ req' = [req EXCEPT ![p] = Done(@, "ok")]
    /\ UNCHANGED <<token_expires_at, messages, now, unit, sessions>>

\* analyze_match, up to the commit: load the row, run the document analysis
\* (analysis_ok = FALSE: the collaborator fails), assign match_analysis_json
\* in memory, transition to READY
analyze_match_load(p, analysis_ok) ==
    /\ IsIdle(p)
    /\ LET iv == [interview EXCEPT !.match_analysis_json = "analysis"]
           v == validate_transition(iv, "READY")
       IN req' = [req EXCEPT ![p] =
                 IF ~Found THEN Done(Begin("analyze"), "not_found")
                 ELSE IF ~analysis_ok
                      THEN Done(Begin("analyze"), "collaborator_failed")
                      ELSE IF v # "ok" THEN Done(Begin("analyze"), v)
                      ELSE [Begin("analyze") EXCEPT
                               !.pc = "analyze_commit",
                               !.iv = transition(iv, "READY")]]
    /\ UNCHANGED <<interview, token_expires_at, messages, now, unit, sessions>>

\* analyze_match: commit writes the attributes changed on the loaded object
analyze_match_commit(p) ==
    /\ req[p].pc = "analyze_commit"
    /\ interview' = [interview EXCEPT
                        !.match_analysis_json = req[p].iv.match_analysis_json,
                        !.status = req[p].iv.status]
    /\ req' = [req EXCEPT ![p] = Done([@ EXCEPT !.iv = NoInterview], "ok")]
    /\ UNCHANGED <<token_expires_at, messages, now, unit, sessions>>

\* assign_interview, up to the commit: load the row, generate the token (the
\* slot's name stands for the fresh random value), set token_expires_at on
\* the object, transition to ASSIGNED
assign_interview_load(p) ==
    /\ IsIdle(p)
    /\ LET iv == [interview EXCEPT !.candidate_link_token = p]
           v == validate_transition(iv, "ASSIGNED")
       IN /\ req' = [req EXCEPT ![p] =
                 IF ~Found THEN Done(Begin("assign"), "not_found")
                 ELSE IF v # "ok" THEN Done(Begin("assign"), v)
                 ELSE [Begin("assign") EXCEPT
                          !.pc = "assign_commit",
                          !.iv = transition(iv, "ASSIGNED")]]
          /\ token_expires_at' =
                 IF Found THEN now + TokenTTLHours ELSE token_expires_at
    /\ UNCHANGED <<interview, messages, now, unit, sessions>>

\* assign_interview: commit of token and status (token_expires_at is not a
\* column and is not written)
assign_interview_commit(p) ==
    /\ req[p].pc = "assign_commit"
    /\ interview' = [interview EXCEPT
                        !.candidate_link_token = req[p].iv.candidate_link_token,
                        !.status = req[p].iv.status]
    /\ req' = [req EXCEPT ![p] = Done([@ EXCEPT !.iv = NoInterview], "ok")]
    /\ UNCHANGED <<token_expires_at, messages, now, unit, sessions>>

\* start_interview, up to the commit: find the row by token, check expiry,
\* transition to IN_PROGRESS.  attr_present: the loaded object is the one
\* assign_interview set token_expires_at on (same db session); otherwise the
\* attribute does not exist on the freshly loaded row
start_interview_load(p, token, attr_present) ==
    /\ IsIdle(p)
    /\ LET v == validate_transition(interview, "IN_PROGRESS")
       IN req' = [req EXCEPT ![p] =
                 IF ~Found \/ interview.candidate_link_token # token
                 THEN Done(Begin("start"), "invalid_token")
                 ELSE IF ~attr_present \/ token_expires_at = NoExpiry
                      THEN Done(Begin("start"), "attribute_error")
                      ELSE IF token_expires_at < now
                           THEN Done(Begin("start"), "expired")
                           ELSE IF v # "ok" THEN Done(Begin("start"), v)
                           ELSE [Begin("start") EXCEPT
                                    !.pc = "start_commit",
                                    !.token = token,
                                    !.iv = transition(interview, "IN_PROGRESS")]]
    /\ UNCHANGED <<interview, token_expires_at, messages, now, unit, sessions>>

\* start_interview: commit of the status
start_interview_commit(p) ==
    /\ req[p].pc = "start_commit"
    /\ interview' = [interview EXCEPT !.status = req[p].iv.status]
    /\ req' = BeginTransaction([req EXCEPT ![p].pc = "start_intro"],
                                p, Len(messages))
    /\ UNCHANGED <<token_expires_at, messages, now, unit, sessions>>


\* variant: the difficulty grows with the call
GeneratorDifficulty_adaptive(iv) == iv.difficulty_start + 1

\* the difficulty_level argument of generate_question
GeneratorDifficulty(iv) == iv.difficulty_start

\* --------------------------------------------------------- api/chat.py

\* /chat/start after InterviewService.start_interview returned: generate and
\* persist the introduction (intro_ok = FALSE: the collaborator fails)
start_introduction(p, intro_ok) ==
    /\ req[p].pc = "start_intro"
    /\ IF intro_ok
       THEN /\ Len(messages) < MaxMessages
            /\ messages' = create_message(messages,
                   Message("assistant", Text("introduction", "intro"),
                           0, NoScore, NoCheat, <<>>),
                   req[p].txn)
            /\ req' = BeginTransaction(
                          RowCommitted([req EXCEPT
                                           ![p].pc = "start_question",
                                           ![p].persisted = @ + 1], p),
                          p, Len(messages'))
       ELSE /\ req' = [req EXCEPT ![p] = Done(@, "introduction_failed")]
            /\ UNCHANGED messages
    /\ UNCHANGED <<interview, token_expires_at, now, unit, sessions>>

\* /chat/start: generate and persist question 1
start_first_question(p, gen_ok, qtext) ==
    /\ req[p].pc = "start_question"
    /\ IF gen_ok
       THEN /\ Len(messages) < MaxMessages
            /\ messages' = create_message(messages,
                   Message("assistant", Text("question", qtext),
                           1, NoScore, NoCheat, <<>>),
                   req[p].txn)
            /\ req' = [RowCommitted(req, p) EXCEPT ![p] =
                          Done([@ EXCEPT
                                   !.persisted = @ + 1,
                                   !.calls.generate = 1,
                                   !.difficulty = GeneratorDifficulty(req[p].iv)],
                               "ok")]
       ELSE /\ req' = [req EXCEPT ![p] =
                          Done([@ EXCEPT
                                   !.calls.generate = 1,
                                   !.difficulty = GeneratorDifficulty(req[p].iv)],
                               "generate_failed")]
            /\ UNCHANGED messages
    /\ UNCHANGED <<interview, token_expires_at, now, unit, sessions>>

\* ------------------------------------------- services/message_service.py

\* variant: the threshold itself counts as fast
NeedsIntegrity_inclusive(t) == t[1] \/ t[2] <= FastResponseMs

\* the integrity condition of the Answer branch on <<paste, response_time>>
NeedsIntegrity(t) == t[1] \/ t[2] < FastResponseMs

\* variant: strict comparison
InterviewComplete_strict(questions_asked, target_questions) ==
    questions_asked > target_questions

\* the completion test of the Answer branch
InterviewComplete(questions_asked, target_questions) ==
    questions_asked >= target_questions

\* variant: the increment is missing
NextQuestionNumber_same(question_number) == question_number

\* the number given to the generated next question
NextQuestionNumber(question_number) == question_number + 1

\* variant: only a completed session is refused
InProgress_open(iv) == iv.status # "COMPLETED"

\* the status test of process_candidate_message
InProgress(iv) == iv.status = "IN_PROGRESS"

\* variant: the closing branch also completes the session
PipelineRow_completes(iv, interview_complete) ==
    IF interview_complete THEN [iv EXCEPT !.status = "COMPLETED"] ELSE iv

\* the interviews row after a pipeline call that reported interview_complete:
\* the pipeline assigns no attribute of the row
PipelineRow(iv, interview_complete) == iv

\* variant: the Answer branch stores a cheat certainty whether or not the
\* integrity assessor ran
CandidateMessage_assessed(cls, content, qn, score, cheat, telemetry) ==
    IF cls = "Answer"
    THEN Message("candidate", Text("candidate", content), qn, score, cheat,
                 telemetry)
    ELSE Message("candidate", Text("candidate", content),
                 0, NoScore, NoCheat, telemetry)

\* variant: every branch stores the Answer-branch columns
CandidateMessage_scored(cls, content, qn, score, cheat, telemetry) ==
    Message("candidate", Text("candidate", content), qn, score, cheat,
            telemetry)

\* the candidate message each branch persists: question number, score and
\* (when the integrity assessor ran) cheat certainty in the Answer branch,
\* content and telemetry only in the others
CandidateMessage(cls, content, qn, score, cheat, telemetry) ==
    IF cls = "Answer"
    THEN Message("candidate", Text("candidate", content), qn, score,
                 IF NeedsIntegrity(telemetry) THEN cheat ELSE NoCheat,
                 telemetry)
    ELSE Message("candidate", Text("candidate", content),
                 0, NoScore, NoCheat, telemetry)

\* the chat_history argument of generate_question: "role: content" of every
\* row of the list, joined in order
ChatHistory(msgs) ==
    [i \in 1..Len(msgs) |-> <<msgs[i].role, msgs[i].content>>]

\* variant: the fixed reply is numbered like a question
FixedReply_numbered(kind, last_question) ==
    Message("assistant", Text(kind, last_question.text),
            1, NoScore, NoCheat, <<>>)

\* the assistant message of the Clarification and OffTopic branches: a fixed
\* template around the current question, role and content only
FixedReply(kind, last_question) ==
    Message("assistant", Text(kind, last_question.text),
            0, NoScore, NoCheat, <<>>)

\* process_candidate_message: load the row, require IN_PROGRESS.  The
\* request's payload (content, telemetry) is first read after the history was
\* loaded and is drawn there
process_candidate_message_load(p) ==
    /\ IsIdle(p)
    /\ req' = IF ~Found
              THEN [req EXCEPT ![p] = Done(Begin("send"), "not_found")]
              ELSE IF ~InProgress(interview)
                   THEN [req EXCEPT ![p] =
                            Done(Begin("send"), "not_in_progress")]
                   ELSE BeginTransaction(
                            [req EXCEPT ![p] =
                                [Begin("send") EXCEPT
                                    !.pc = "send_history",
                                    !.iv = interview]],
                            p, Len(messages))
    /\ UNCHANGED <<interview, token_expires_at, messages, now, unit, sessions>>

\* process_candidate_message: load the history, find the current question
process_candidate_message_history(p) ==
    /\ req[p].pc = "send_history"
    /\ LET i == LastQuestionIndex(messages, Len(messages))
       IN req' = [req EXCEPT ![p] =
                 IF i = 0
                 THEN Done([@ EXCEPT !.iv = NoInterview], "no_current_question")
                 ELSE [@ EXCEPT !.pc = "send_candidate",
                                !.nmsgs = Len(messages),
                                !.history = messages,
                                !.last_question = messages[i].content,
                                !.question_number = messages[i].question_number]]
    /\ UNCHANGED <<interview, token_expires_at, messages, now, unit, sessions>>

\* response_time_ms is None and paste_detected is false: the comparison
\* "None < 5000" of the Answer branch raises TypeError
RaisesTypeError(t) == ~t[1] /\ t[2] = NoneRT

\* process_candidate_message: the call ends before the first persist: a
\* collaborator fails (classify_message; in the Answer branch evaluate_answer,
\* or assess_integrity when the telemetry asks for it), or the integrity
\* condition raises
process_candidate_message_fail(p, telemetry, stage) ==
    /\ req[p].pc = "send_candidate"
    /\ stage = "type_error" => RaisesTypeError(telemetry)
    /\ stage = "integrity_failed" =>
           ~RaisesTypeError(telemetry) /\ NeedsIntegrity(telemetry)
    /\ req' = [req EXCEPT ![p] =
                 Done([@ EXCEPT
                          !.iv = NoInterview,
                          !.telemetry = telemetry,
                          !.cls = IF stage = "classify_failed"
                                  THEN None ELSE "Answer",
                          !.calls = [classify |-> 1,
                                     evaluate |-> IF stage = "classify_failed"
                                                  THEN 0 ELSE 1,
                                     integrity |-> IF stage = "integrity_failed"
                                                   THEN 1 ELSE 0,
                                     generate |-> 0],
                          !.context = IF stage = "integrity_failed"
                                      THEN IntegrityContext(Snapshot(p))
                                      ELSE <<>>],
                      stage)]
    /\ UNCHANGED <<interview, token_expires_at, messages, now, unit, sessions>>

\* process_candidate_message: classification, evaluation and integrity
\* assessment succeeded; persist the candidate message of the branch
process_candidate_message_candidate(p, content, telemetry, cls, score, cheat) ==
    /\ req[p].pc = "send_candidate"
    /\ Len(messages) < MaxMessages
    /\ cls = "Answer" => ~RaisesTypeError(telemetry)
    /\ messages' = create_message(messages,
           CandidateMessage(cls, content, req[p].question_number, score,
                            cheat, telemetry),
           req[p].txn)
    /\ LET assessed == cls = "Answer" /\ NeedsIntegrity(telemetry)
           rq == [req EXCEPT
                     ![p].pc = "send_reply",
                     ![p].cls = cls,
                     ![p].telemetry = telemetry,
                     ![p].calls = [classify |-> 1,
                                   evaluate |-> IF cls = "Answer" THEN 1 ELSE 0,
                                   integrity |-> IF assessed THEN 1 ELSE 0,
                                   generate |-> 0],
                     ![p].context = IF assessed
                                    THEN IntegrityContext(Snapshot(p))
                                    ELSE <<>>,
                     ![p].persisted = 1]
       IN req' = BeginTransaction(RowCommitted(rq, p), p, Len(messages'))
    /\ UNCHANGED <<interview, token_expires_at, now, unit, sessions>>

\* process_candidate_message: the assistant reply of the branch.  Answer:
\* closing message once questions_asked (counted on the loaded history)
\* reached target_questions, else the generated next question (gen_ok =
\* FALSE: generate_question fails).  Clarification / OffTopic: fixed reply
process_candidate_message_reply(p, gen_ok, qtext) ==
    /\ req[p].pc = "send_reply"
    /\ LET r == req[p]
           questions_asked == QuestionsAsked(Snapshot(p))
           closing == r.cls = "Answer"
                      /\ InterviewComplete(questions_asked,
                                           r.iv.target_questions)
           generating == r.cls = "Answer" /\ ~closing
           reply ==
               CASE closing ->
                      Message("assistant", ClosingText,
                              0, NoScore, NoCheat, <<>>)
                 [] generating ->
                      Message("assistant", Text("question", qtext),
                              NextQuestionNumber(r.question_number),
                              NoScore, NoCheat, <<>>)
                 [] r.cls = "Clarification" ->
                      FixedReply("clarification", r.last_question)
                 [] OTHER ->
                      FixedReply("redirect", r.last_question)
       IN IF generating /\ ~gen_ok
          THEN /\ req' = [req EXCEPT ![p] =
                             Done([@ EXCEPT
                                      !.iv = NoInterview,
                                      !.calls.generate = 1,
                                      !.difficulty = GeneratorDifficulty(r.iv),
                                      !.chat_history =
                                          ChatHistory(Snapshot(p))],
                                  "generate_failed")]
               /\ UNCHANGED <<interview, messages>>
          ELSE /\ Len(messages) < MaxMessages
               /\ messages' = create_message(messages, reply, r.txn)
               /\ interview' = PipelineRow(interview, closing)
               /\ req' = [RowCommitted(req, p) EXCEPT ![p] =
                             Done([@ EXCEPT
                                      !.iv = NoInterview,
                                      !.complete = closing,
                                      !.calls.generate =
                                          IF generating THEN 1 ELSE 0,
                                      !.difficulty =
                                          IF generating
                                          THEN GeneratorDifficulty(r.iv)
                                          ELSE 0,
                                      !.chat_history =
                                          IF generating
                                          THEN ChatHistory(Snapshot(p))
                                          ELSE <<>>,
                                      !.persisted = 2], "ok")]
    /\ UNCHANGED <<token_expires_at, now, unit, sessions>>

\* GET /chat/{interview_id}/messages: the rows of the session, by id
get_messages(p) ==
    /\ IsIdle(p)
    /\ req' = [req EXCEPT ![p] = Done(Begin("messages"), "ok")]
    /\ UNCHANGED <<interview, token_expires_at, messages, now, unit, sessions>>

\* --------------------------- services/interview_service.py (completion)

\* complete_interview: load the row
complete_interview_load(p) ==
    /\ IsIdle(p)
    /\ req' = [req EXCEPT ![p] =
                 IF ~Found THEN Done(Begin("complete"), "not_found")
                 ELSE [Begin("complete") EXCEPT
                          !.pc = "complete_report", !.iv = interview]]
    /\ UNCHANGED <<interview, token_expires_at, messages, now, unit, sessions>>

\* one entry per row of the loop: score and the question number the
\* rationale quotes
ScoreEntry(m) ==
    [score |-> m.answer_quality_score, rationale |-> m.question_number]

\* variant: every candidate row gets an entry
HasScore_anycandidate(m) == m.role = "candidate"

\* the test of the question_scores loop: a candidate row whose
\* answer_quality_score is truthy
HasScore(m) == m.role = "candidate" /\ m.answer_quality_score # NoScore

\* the question_scores list of complete_interview
RECURSIVE question_scores(_)
question_scores(msgs) ==
    IF msgs = <<>> THEN <<>>
    ELSE (IF HasScore(Head(msgs)) THEN <<ScoreEntry(Head(msgs))>> ELSE <<>>)
         \o question_scores(Tail(msgs))

\* the paste_count sum of complete_interview: rows that have telemetry whose
\* paste_detected is truthy
RECURSIVE paste_count(_)
paste_count(msgs) ==
    IF msgs = <<>> THEN 0
    ELSE (IF Head(msgs).telemetry # <<>> /\ Head(msgs).telemetry[1]
          THEN 1 ELSE 0)
         + paste_count(Tail(msgs))

\* "Total messages: {len(messages)}, Paste events: {paste_count}"
telemetry_summary(msgs) ==
    [total |-> Len(msgs), paste_events |-> paste_count(msgs)]

\* complete_interview: load the messages, build the report inputs, synthesize
\* the report (report_ok = FALSE: generate_report fails), assign report_json
\* in memory, transition to COMPLETED
complete_interview_report(p, report_ok) ==
    /\ req[p].pc = "complete_report"
    /\ LET iv == [req[p].iv EXCEPT !.report_json = "report"]
           v == validate_transition(iv, "COMPLETED")
           called == [req[p] EXCEPT
                         !.report_inputs =
                             [question_scores |-> question_scores(messages),
                              telemetry_summary |->
                                  telemetry_summary(messages)]]
       IN req' = [req EXCEPT ![p] =
                 IF ~report_ok
                 THEN Done([called EXCEPT !.iv = NoInterview], "report_failed")
                 ELSE IF v # "ok"
                      THEN Done([called EXCEPT !.iv = NoInterview], v)
                      ELSE [called EXCEPT !.pc = "complete_commit",
                                     !.nmsgs = Len(messages),
                                     !.iv = transition(iv, "COMPLETED")]]
    /\ UNCHANGED <<interview, token_expires_at, messages, now, unit, sessions>>

\* complete_interview: commit of report and status
complete_interview_commit(p) ==
    /\ req[p].pc = "complete_commit"
    /\ interview' = [interview EXCEPT
                        !.report_json = req[p].iv.report_json,
                        !.status = req[p].iv.status]
    /\ req' = [req EXCEPT ![p] = Done([@ EXCEPT !.iv = NoInterview], "ok")]
    /\ UNCHANGED <<token_expires_at, messages, now, unit, sessions>>

\* ---------------------------------------------------------- environment

\* the response is sent; the slot is free for the next request
Return(p) ==
    /\ req[p].pc = "done"
    /\ req' = [req EXCEPT ![p] = Idle]
    /\ UNCHANGED <<interview, token_expires_at, messages, now, unit, sessions>>

\* time passes; the clock is only advanced while the candidate link is
\* outstanding, the one period in which an operation reads it
Tick ==
    /\ interview.status = "ASSIGNED"
    /\ now + HoursPerTick <= MaxTime
    /\ now' = now + HoursPerTick
    /\ UNCHANGED <<interview, token_expires_at, messages, req, unit, sessions>>

Classifications == {"Answer", "Clarification", "OffTopic"}
FailStages == {"classify_failed", "evaluate_failed", "integrity_failed",
               "type_error"}
Tokens == Procs \cup {"bad"}

AllIdle == \A q \in Procs : IsIdle(q)

\* the slot an arriving request takes: r1 when it is free, r2 otherwise (the
\* slots are interchangeable); pending responses are returned first
FreeSlot(p) ==
    /\ IsIdle(p)
    /\ p = "r2" => ~IsIdle("r1")
    /\ \A q \in Procs : req[q].pc # "done"

\* a request arrives, possibly while another is in flight
Arrival(p) ==
    /\ FreeSlot(p)
    /\ AllIdle \/ overlaps < MaxOverlaps
    /\ overlaps' = IF AllIdle THEN overlaps ELSE overlaps + 1

\* a request arrives while no other is in flight
ArrivalAlone(p) ==
    /\ FreeSlot(p)
    /\ AllIdle
    /\ overlaps' = overlaps

\* a session of the table harness: its persisted row, and the object and
\* position of the assign_interview call in flight on it
NoSession ==
    [row |-> NoInterview, pc |-> "idle", obj |-> NoInterview, outcome |-> None]
NoSessions == [s \in 1..MaxSessions |-> NoSession]

NoUnit ==
    [interview |-> NoInterview, new_status |-> None, called |-> FALSE,
     can |-> FALSE, raised |-> None, after |-> NoInterview]

Init ==
    /\ interview = NoInterview
    /\ token_expires_at = NoExpiry
    /\ messages = <<>>
    /\ now = 0
    /\ req = [p \in Procs |-> Idle]
    /\ overlaps = 0
    /\ unit = NoUnit
    /\ sessions = NoSessions

\* requests overlap
Next ==
    \/ \E p \in Procs, c \in Configurations :
           Arrival(p) /\ create_interview(p, c[1], c[2])
    \/ \E p \in Procs : Arrival(p) /\ upload_documents_load(p)
    \/ \E p \in Procs, ok \in BOOLEAN : Arrival(p) /\ analyze_match_load(p, ok)
    \/ \E p \in Procs : Arrival(p) /\ assign_interview_load(p)
    \/ \E p \in Procs, t \in Tokens, a \in BOOLEAN :
           Arrival(p) /\ start_interview_load(p, t, a)
    \/ \E p \in Procs : Arrival(p) /\ process_candidate_message_load(p)
    \/ \E p \in Procs : Arrival(p) /\ complete_interview_load(p)
    \/ \E p \in Procs : Arrival(p) /\ get_messages(p)
    \/ \E p \in Procs : upload_documents_commit(p) /\ UNCHANGED overlaps
    \/ \E p \in Procs : analyze_match_commit(p) /\ UNCHANGED overlaps
    \/ \E p \in Procs : assign_interview_commit(p) /\ UNCHANGED overlaps
    \/ \E p \in Procs : start_interview_commit(p) /\ UNCHANGED overlaps
    \/ \E p \in Procs, ok \in BOOLEAN :
           start_introduction(p, ok) /\ UNCHANGED overlaps
    \/ \E p \in Procs, ok \in BOOLEAN, q \in QuestionTexts :
           start_first_question(p, ok, q) /\ UNCHANGED overlaps
    \/ \E p \in Procs : process_candidate_message_history(p) /\ UNCHANGED overlaps
    \/ \E p \in Procs, t \in OverlapTelemetries, st \in FailStages :
           process_candidate_message_fail(p, t, st) /\ UNCHANGED overlaps
    \/ \E p \in Procs, c \in CandidateTexts, t \in OverlapTelemetries,
          k \in Classifications, sc \in Scores, ch \in CheatCertainties :
           process_candidate_message_candidate(p, c, t, k, sc, ch)
           /\ UNCHANGED overlaps
    \/ \E p \in Procs, ok \in BOOLEAN, q \in QuestionTexts :
           process_candidate_message_reply(p, ok, q) /\ UNCHANGED overlaps
    \/ \E p \in Procs, ok \in BOOLEAN :
           complete_interview_report(p, ok) /\ UNCHANGED overlaps
    \/ \E p \in Procs : complete_interview_commit(p) /\ UNCHANGED overlaps
    \/ \E p \in Procs : Return(p) /\ UNCHANGED overlaps
    \/ Tick /\ UNCHANGED overlaps

Spec == Init /\ [][Next]_vars

\* requests do not overlap: one arrives only when no other is in flight
NextSeq ==
    \/ \E p \in Procs, c \in Configurations :
           ArrivalAlone(p) /\ create_interview(p, c[1], c[2])
    \/ \E p \in Procs : ArrivalAlone(p) /\ upload_documents_load(p)
    \/ \E p \in Procs, ok \in BOOLEAN :
           ArrivalAlone(p) /\ analyze_match_load(p, ok)
    \/ \E p \in Procs : ArrivalAlone(p) /\ assign_interview_load(p)
    \/ \E p \in Procs, t \in Tokens, a \in BOOLEAN :
           ArrivalAlone(p) /\ start_interview_load(p, t, a)
    \/ \E p \in Procs : ArrivalAlone(p) /\ process_candidate_message_load(p)
    \/ \E p \in Procs : ArrivalAlone(p) /\ complete_interview_load(p)
    \/ \E p \in Procs : ArrivalAlone(p) /\ get_messages(p)
    \/ \E p \in Procs : upload_documents_commit(p) /\ UNCHANGED overlaps
    \/ \E p \in Procs : analyze_match_commit(p) /\ UNCHANGED overlaps
    \/ \E p \in Procs : assign_interview_commit(p) /\ UNCHANGED overlaps
    \/ \E p \in Procs : start_interview_commit(p) /\ UNCHANGED overlaps
    \/ \E p \in Procs, ok \in BOOLEAN :
           start_introduction(p, ok) /\ UNCHANGED overlaps
    \/ \E p \in Procs, ok \in BOOLEAN, q \in QuestionTexts :
           start_first_question(p, ok, q) /\ UNCHANGED overlaps
    \/ \E p \in Procs : process_candidate_message_history(p) /\ UNCHANGED overlaps
    \/ \E p \in Procs, t \in Telemetries, st \in FailStages :
           process_candidate_message_fail(p, t, st) /\ UNCHANGED overlaps
    \/ \E p \in Procs, c \in CandidateTexts, t \in Telemetries,
          k \in Classifications, sc \in Scores, ch \in CheatCertainties :
           process_candidate_message_candidate(p, c, t, k, sc, ch)
           /\ UNCHANGED overlaps
    \/ \E p \in Procs, ok \in BOOLEAN, q \in QuestionTexts :
           process_candidate_message_reply(p, ok, q) /\ UNCHANGED overlaps
    \/ \E p \in Procs, ok \in BOOLEAN :
           complete_interview_report(p, ok) /\ UNCHANGED overlaps
    \/ \E p \in Procs : complete_interview_commit(p) /\ UNCHANGED overlaps
    \/ \E p \in Procs : Return(p) /\ UNCHANGED overlaps
    \/ Tick /\ UNCHANGED overlaps

SeqSpec == Init /\ [][NextSeq]_vars

\* ------------------------------------- state-machine unit harness
\* one call of can_transition and transition on an arbitrary interview object

UnitInit ==
    /\ interview = NoInterview
    /\ token_expires_at = NoExpiry
    /\ messages = <<>>
    /\ now = 0
    /\ req = [p \in Procs |-> Idle]
    /\ overlaps = 0
    /\ sessions = NoSessions
    /\ \E s \in InterviewStatus, n \in InterviewStatus,
          m \in {None, "analysis"}, t \in {None, "r1"}, r \in {None, "report"} :
          unit = [NoUnit EXCEPT
                     !.interview = [NewInterview(1, 5) EXCEPT
                                       !.status = s,
                                       !.match_analysis_json = m,
                                       !.candidate_link_token = t,
                                       !.report_json = r],
                     !.new_status = n]

UnitTransition ==
    /\ ~unit.called
    /\ unit' = [unit EXCEPT
                   !.called = TRUE,
                   !.can = can_transition(unit.interview.status, unit.new_status),
                   !.raised = validate_transition(unit.interview, unit.new_status),
                   !.after = transition(unit.interview, unit.new_status)]
    /\ UNCHANGED <<interview, token_expires_at, messages, now, req, overlaps,
                   sessions>>

UnitNext == UnitTransition

UnitSpec == UnitInit /\ [][UnitNext]_vars

\* ------------------------------------- interviews-table harness
\* several sessions in one interviews table, and the calls that lead each of
\* them to its link token (create_interview, analyze_match, assign_interview)

SessionIds == 1..MaxSessions

\* the values secrets.token_urlsafe(32) returns: two, so that two calls may
\* draw the same one
TokenValues == {"t1", "t2"}

\* variant: the column has no unique index
UniqueViolation_none(rows, s, token) == FALSE

\* the unique index on interviews.candidate_link_token: writing token to the
\* row of s is refused when the row of another session holds it
UniqueViolation(rows, s, token) ==
    \E o \in SessionIds : o # s /\ rows[o].row.candidate_link_token = token

\* /chat/start requests may overlap each other; every other request arrives
\* only when no request is in flight
NextStartOverlap ==
    \/ NextSeq
    \/ \E p \in Procs, t \in Tokens, a \in BOOLEAN :
           Arrival(p) /\ start_interview_load(p, t, a)

StartOverlapSpec == Init /\ [][NextStartOverlap]_vars

\* create_interview: a new DRAFT row
create_interview_row(s) ==
    /\ sessions[s].row = NoInterview
    /\ sessions' = [sessions EXCEPT ![s].row = NewInterview(1, 5)]
    /\ UNCHANGED <<interview, token_expires_at, messages, now, req, overlaps,
                   unit>>

\* analyze_match, in one step: match analysis and READY, or the row as it was
analyze_match_row(s) ==
    /\ sessions[s].row # NoInterview
    /\ sessions[s].pc = "idle"
    /\ LET iv == [sessions[s].row EXCEPT !.match_analysis_json = "analysis"]
       IN sessions' = [sessions EXCEPT
              ![s].row = IF validate_transition(iv, "READY") = "ok"
                         THEN transition(iv, "READY") ELSE @,
              ![s].outcome = validate_transition(iv, "READY")]
    /\ UNCHANGED <<interview, token_expires_at, messages, now, req, overlaps,
                   unit>>

\* assign_interview, up to the commit: load the row, draw the token,
\* transition to ASSIGNED
assign_interview_row_load(s, token) ==
    /\ sessions[s].row # NoInterview
    /\ sessions[s].pc = "idle"
    /\ LET iv == [sessions[s].row EXCEPT !.candidate_link_token = token]
           v == validate_transition(iv, "ASSIGNED")
       IN sessions' = [sessions EXCEPT ![s] =
              IF v # "ok" THEN [@ EXCEPT !.outcome = v]
              ELSE [@ EXCEPT !.pc = "assign_commit",
                             !.obj = transition(iv, "ASSIGNED"),
                             !.outcome = None]]
    /\ UNCHANGED <<interview, token_expires_at, messages, now, req, overlaps,
                   unit>>

\* assign_interview: commit of token and status; the database raises
\* IntegrityError when the unique index is violated and nothing is written
assign_interview_row_commit(s) ==
    /\ sessions[s].pc = "assign_commit"
    /\ LET obj == sessions[s].obj
       IN sessions' = [sessions EXCEPT ![s] =
              IF UniqueViolation(sessions, s, obj.candidate_link_token)
              THEN [@ EXCEPT !.pc = "idle", !.obj = NoInterview,
                             !.outcome = "integrity_error"]
              ELSE [@ EXCEPT !.pc = "idle", !.obj = NoInterview,
                             !.outcome = "ok",
                             !.row = [@ EXCEPT
                                 !.candidate_link_token =
                                     obj.candidate_link_token,
                                 !.status = obj.status]]]
    /\ UNCHANGED <<interview, token_expires_at, messages, now, req, overlaps,
                   unit>>

TableNext ==
    \/ \E s \in SessionIds : create_interview_row(s)
    \/ \E s \in SessionIds : analyze_match_row(s)
    \/ \E s \in SessionIds, t \in TokenValues : assign_interview_row_load(s, t)
    \/ \E s \in SessionIds : assign_interview_row_commit(s)

TableSpec == Init /\ [][TableNext]_vars

\* ------------------------------------- api/interviews.py upload_documents
\* The upload endpoint of one session under overlapping requests: each
\* request saves its files, calls upload_documents and then analyze_match on
\* the same db session.

\* the saved files of a request (save_upload_file names them by content hash)
Uploads == {"files1", "files2"}

\* the MatchAnalysis analyze_documents returns for the texts of the files
analyze_documents(files) ==
    IF files = "files1" THEN "analysis1" ELSE "analysis2"

\* variant: the status is not tested
IsDraft_any(iv) == TRUE

\* the status test of upload_documents
IsDraft(iv) == iv.status = "DRAFT"

\* upload_documents, up to the commit: load the row, require DRAFT, assign
\* the three paths on the object
upload_documents_api_load(p, files) ==
    /\ IsIdle(p)
    /\ req' = [req EXCEPT ![p] =
                 IF ~Found THEN Done(Begin("upload"), "not_found")
                 ELSE IF ~IsDraft(interview)
                      THEN Done(Begin("upload"), "not_draft")
                      ELSE [Begin("upload") EXCEPT
                               !.pc = "upload_commit", !.paths = files]]
    /\ UNCHANGED <<interview, token_expires_at, messages, now, overlaps, unit,
                   sessions>>

\* upload_documents: commit of the paths, then refresh: the object of the
\* request's db session now holds the row as committed at this moment
upload_documents_api_commit(p) ==
    /\ req[p].pc = "upload_commit"
    /\ interview' = [interview EXCEPT !.documents = req[p].paths]
    /\ req' = [req EXCEPT ![p].pc = "analyze", ![p].iv = interview']
    /\ UNCHANGED <<token_expires_at, messages, now, overlaps, unit, sessions>>

\* analyze_match on the same db session: the select returns the object
\* already in the session, with the attributes it was refreshed to; run the
\* analysis (analysis_ok = FALSE: it fails), assign match_analysis_json,
\* transition to READY
analyze_match_api(p, analysis_ok) ==
    /\ req[p].pc = "analyze"
    /\ LET iv == [req[p].iv EXCEPT
                     !.match_analysis_json = analyze_documents(req[p].paths)]
           v == validate_transition(iv, "READY")
       IN req' = [req EXCEPT ![p] =
                 IF ~analysis_ok
                 THEN Done([@ EXCEPT !.iv = NoInterview], "collaborator_failed")
                 ELSE IF v # "ok"
                      THEN Done([@ EXCEPT !.iv = NoInterview], v)
                      ELSE [@ EXCEPT !.pc = "analyze_commit",
                                     !.iv = transition(iv, "READY")]]
    /\ UNCHANGED <<interview, token_expires_at, messages, now, overlaps, unit,
                   sessions>>

UploadNext ==
    \/ \E p \in Procs :
           create_interview(p, 1, 5) /\ UNCHANGED overlaps
    \/ \E p \in Procs, f \in Uploads :
           upload_documents_api_load(p, f)
    \/ \E p \in Procs : upload_documents_api_commit(p)
    \/ \E p \in Procs, ok \in BOOLEAN : analyze_match_api(p, ok)
    \/ \E p \in Procs : analyze_match_commit(p) /\ UNCHANGED overlaps
    \/ \E p \in Procs : assign_interview_load(p) /\ UNCHANGED overlaps
    \/ \E p \in Procs : assign_interview_commit(p) /\ UNCHANGED overlaps
    \/ \E p \in Procs : Return(p) /\ UNCHANGED overlaps

UploadSpec == Init /\ [][UploadNext]_vars


\* ====================================================================
\* Properties
\* ====================================================================

Lifecycle == <<"DRAFT", "READY", "ASSIGNED", "IN_PROGRESS", "COMPLETED">>

\* the four direct steps of the linear lifecycle
LifecyclePairs == {<<Lifecycle[i], Lifecycle[i + 1]>> : i \in 1..4}

C2_CanTransitionIsDirectSuccessor ==
    unit.called =>
        (unit.can <=>
            <<unit.interview.status, unit.new_status>> \in LifecyclePairs)

\* a legal pair was asked
C2_Witness ==
    /\ unit.called
    /\ unit.can
    /\ unit.interview.status = "ASSIGNED"
    /\ unit.new_status = "IN_PROGRESS"

\* C3: from the legal predecessor, transition raises for READY without match
\* analysis, for ASSIGNED without link token and for COMPLETED without
\* report; IN_PROGRESS has no data precondition
C3_PreconditionsGuardTargets ==
    (unit.called
     /\ <<unit.interview.status, unit.new_status>> \in LifecyclePairs) =>
        LET iv == unit.interview
            missing ==
                \/ unit.new_status = "READY" /\ iv.match_analysis_json = None
                \/ unit.new_status = "ASSIGNED" /\ iv.candidate_link_token = None
                \/ unit.new_status = "COMPLETED" /\ iv.report_json = None
        IN IF missing
           THEN unit.raised = "precondition_not_met"
           ELSE unit.raised = "ok"

\* DRAFT -> READY was refused for the missing match analysis
C3_Witness ==
    /\ unit.called
    /\ unit.interview.status = "DRAFT"
    /\ unit.new_status = "READY"
    /\ unit.interview.match_analysis_json = None
    /\ unit.raised = "precondition_not_met"

\* C4: a transition that raises leaves the interview object as it was, and one
\* that passes changes the status and nothing else
C4_FailedTransitionKeepsStatus ==
    unit.called =>
        IF unit.raised = "ok"
        THEN unit.after = [unit.interview EXCEPT !.status = unit.new_status]
        ELSE unit.after = unit.interview

\* a refused transition to a different status
C4_Witness ==
    /\ unit.called
    /\ unit.raised # "ok"
    /\ unit.new_status # unit.interview.status
    /\ unit.after.status = unit.interview.status

\* C5: start_interview with the issued token of an ASSIGNED session past its
\* expiration always ends with the expired-token error, the row and the
\* messages unchanged
C5_ExpiredStartFailsExpired ==
    [][\A p \in Procs :
          (/\ IsIdle(p)
           /\ req'[p].op = "start"
           /\ interview.status = "ASSIGNED"
           /\ interview.candidate_link_token \in Procs
           /\ req'[p].outcome # "invalid_token"
           /\ token_expires_at # NoExpiry
           /\ token_expires_at < now) =>
              /\ req'[p].pc = "done"
              /\ req'[p].outcome = "expired"
              /\ interview' = interview
              /\ messages' = messages]_vars

InPipeline(p) ==
    req[p].op = "send" /\ req[p].pc \in {"send_candidate", "send_reply"}

\* C6: two process_candidate_message calls on the session never interleave: no
\* call holds a loaded history while another has loaded its own and not yet
\* persisted its last message
C6_PipelineCallsDoNotInterleave ==
    \A p, q \in Procs : (p # q /\ InPipeline(p)) => ~InPipeline(q)

\* C7: a process_candidate_message call that ends on a failed collaborator
\* call leaves none of its messages persisted
C7_FailedCallPersistsNothing ==
    \A p \in Procs :
        (/\ req[p].op = "send"
         /\ req[p].pc = "done"
         /\ req[p].outcome \in {"classify_failed", "evaluate_failed",
                                "integrity_failed", "generate_failed"}) =>
            req[p].persisted = 0

StartExecuting(p) ==
    req[p].op = "start"
    /\ req[p].pc \in {"start_commit", "start_intro", "start_question"}

\* C8: whenever the status is IN_PROGRESS and no /chat/start request is still
\* executing, an assistant message carrying a question number exists
C8_InProgressHasQuestion ==
    (interview.status = "IN_PROGRESS" /\ \A p \in Procs : ~StartExecuting(p)) =>
        \E i \in 1..Len(messages) : IsQuestion(messages[i])

\* the messages a step appended
Appended == SubSeq(messages', Len(messages) + 1, Len(messages'))

\* the reply step of an Answer-branch call that returns a result
AnswerReturns(p) ==
    /\ req[p].pc = "send_reply"
    /\ req[p].cls = "Answer"
    /\ req'[p].pc = "done"
    /\ req'[p].outcome = "ok"

\* C9 as claimed: an Answer with questionsAsked = target_questions - 1 before
\* the turn returns interview_complete = true and persists no new question
C9_CompleteAtTargetMinusOne ==
    [][\A p \in Procs :
          (/\ AnswerReturns(p)
           /\ QuestionsAsked(Snapshot(p)) = req[p].iv.target_questions - 1) =>
              /\ req'[p].complete
              /\ \A i \in 1..Len(Appended) : ~IsQuestion(Appended[i])]_vars

\* C9 amended: an Answer with questionsAsked = target_questions before the
\* turn returns interview_complete = true and persists the closing message,
\* no new question
C9_CompleteAtTarget ==
    [][\A p \in Procs :
          (/\ AnswerReturns(p)
           /\ QuestionsAsked(Snapshot(p)) = req[p].iv.target_questions) =>
              /\ req'[p].complete
              /\ Len(Appended) = 1
              /\ Appended[1].role = "assistant"
              /\ Appended[1].question_number = 0]_vars

\* an Answer-branch call returned interview_complete = true
C9_Witness ==
    \E p \in Procs :
        /\ req[p].op = "send"
        /\ req[p].pc = "done"
        /\ req[p].outcome = "ok"
        /\ req[p].cls = "Answer"
        /\ req[p].complete
        /\ QuestionsAsked(messages) = interview.target_questions

\* the number of the current question in the history the call loaded
CurrentQuestionNumber(p) ==
    Snapshot(p)[LastQuestionIndex(Snapshot(p), req[p].nmsgs)].question_number

\* C10: an Answer with questionsAsked < target_questions - 1 before the turn
\* persists the candidate message and then exactly one assistant message
\* carrying a question number, the current question's number plus 1
C10_NextQuestionNumbered ==
    [][\A p \in Procs :
          /\ (/\ req[p].pc = "send_candidate"
              /\ req'[p].pc = "send_reply"
              /\ req'[p].cls = "Answer") =>
                 /\ Len(Appended) = 1
                 /\ Appended[1].role = "candidate"
          /\ (/\ AnswerReturns(p)
              /\ QuestionsAsked(Snapshot(p)) < req[p].iv.target_questions - 1) =>
                 /\ ~req'[p].complete
                 /\ Len(Appended) = 1
                 /\ IsQuestion(Appended[1])
                 /\ Appended[1].question_number = CurrentQuestionNumber(p) + 1]_vars

\* question 2 of 3 was persisted by a returned Answer-branch call
C10_Witness ==
    /\ interview.target_questions = 3
    /\ Len(messages) = 4
    /\ IsQuestion(messages[4])
    /\ messages[4].question_number = 2
    /\ messages[3].role = "candidate"
    /\ \E p \in Procs :
          /\ req[p].op = "send"
          /\ req[p].pc = "done"
          /\ req[p].outcome = "ok"
          /\ req[p].cls = "Answer"
          /\ ~req[p].complete

\* the assistant messages carrying a question number among the first n rows
QuestionRows(n) ==
    {i \in 1..n : messages[i].role = "assistant"
                  /\ messages[i].question_number # 0}

\* C11: the reply step of the Answer branch reports interview_complete = true,
\* persists the closing message without question number and makes no
\* generator call exactly when the count of question rows of the loaded
\* history is >= target_questions; otherwise it calls the generator, reports
\* interview_complete = false and, when it returns, has persisted a question
C11_CompletionExactlyAtTarget ==
    [][\A p \in Procs :
          (/\ req[p].pc = "send_reply"
           /\ req[p].cls = "Answer"
           /\ req'[p].pc = "done") =>
              IF Cardinality(QuestionRows(req[p].nmsgs))
                     >= req[p].iv.target_questions
              THEN /\ req'[p].outcome = "ok"
                   /\ req'[p].complete
                   /\ req'[p].calls.generate = 0
                   /\ Appended = <<Message("assistant", ClosingText, 0,
                                           NoScore, NoCheat, <<>>)>>
              ELSE /\ ~req'[p].complete
                   /\ req'[p].calls.generate = 1
                   /\ req'[p].outcome = "ok" =>
                          /\ Len(Appended) = 1
                          /\ IsQuestion(Appended[1])]_vars

\* the second Answer of a two-question session closed it without a generator
\* call
C11_Witness ==
    /\ interview.target_questions = 2
    /\ \E p \in Procs :
          /\ req[p].op = "send"
          /\ req[p].pc = "done"
          /\ req[p].outcome = "ok"
          /\ req[p].cls = "Answer"
          /\ req[p].complete
          /\ req[p].calls.generate = 0
    /\ Cardinality(QuestionRows(Len(messages))) = 2

\* a history made by /chat/start and Answer turns only: introduction,
\* question 1, then scored candidate answers alternating with assistant
\* questions or closing messages
AnswersOnly(msgs) ==
    /\ Len(msgs) >= 2
    /\ msgs[1].role = "assistant" /\ msgs[1].content.kind = "introduction"
    /\ IsQuestion(msgs[2]) /\ msgs[2].question_number = 1
    /\ \A i \in 3..Len(msgs) :
          IF i % 2 = 1
          THEN msgs[i].role = "candidate"
               /\ msgs[i].answer_quality_score # NoScore
          ELSE msgs[i].role = "assistant"
               /\ msgs[i].content.kind \in {"question", "closing"}

\* the outcome of the k-th Answer turn of an N-question session
TurnOutcome(p) ==
    LET k == Len(SelectSeq(messages, IsCandidate))
        N == interview.target_questions
        last == messages[Len(messages)]
    IN /\ k < N => /\ ~req[p].complete
                   /\ IsQuestion(last)
                   /\ last.question_number = k + 1
       /\ k = N => /\ req[p].complete
                   /\ last.content = ClosingText
                   /\ \A i \in 1..Len(messages) :
                          messages[i].question_number # N + 1

\* C12: on a started session with Answer turns only, no failing collaborator
\* and no overlap, every Answer-classified call returns a result; the k-th
\* returns interview_complete = false with question k+1 persisted for k < N,
\* and the N-th returns interview_complete = true with the closing message
\* and no question N+1
C12_AnswerTurnsReachTarget ==
    \A p \in Procs :
        (/\ req[p].op = "send"
         /\ req[p].pc = "done"
         /\ req[p].cls = "Answer"
         /\ req[p].outcome \notin {"evaluate_failed", "integrity_failed",
                                   "generate_failed"}
         /\ AnswersOnly(messages)) =>
            /\ req[p].outcome = "ok"
            /\ TurnOutcome(p)

\* C13: once the Answer branch has its evaluation, the integrity assessor is
\* called once when the telemetry has paste_detected or a response time below
\* 5000 ms and not at all otherwise (5000 ms exactly included); it is never
\* called in the Clarification and OffTopic branches
C13_IntegrityOnlyWhenSuspicious ==
    \A p \in Procs :
        (req[p].op = "send" /\ req[p].calls.classify = 1) =>
            LET t == req[p].telemetry
                suspicious == t[1] \/ (t[2] # NoneRT /\ t[2] < 5000)
            IN /\ (req[p].cls = "Answer" /\ req[p].calls.evaluate = 1
                                         /\ req[p].outcome # "evaluate_failed") =>
                      req[p].calls.integrity = IF suspicious THEN 1 ELSE 0
               /\ req[p].cls \in {"Clarification", "OffTopic"} =>
                      req[p].calls.integrity = 0

\* an answer pasted after 5000 ms was assessed, and persisted with its
\* cheat certainty
C13_Witness ==
    \E p \in Procs :
        /\ req[p].op = "send"
        /\ req[p].pc = "done"
        /\ req[p].outcome = "ok"
        /\ req[p].telemetry = <<TRUE, 5000>>
        /\ req[p].calls.integrity = 1
        /\ \E i \in 1..Len(messages) : messages[i].cheat_certainty # NoCheat

IsAnswer(m) == m.role = "candidate" /\ m.answer_quality_score # NoScore

\* the texts of the candidate messages handled as Answer, in order
PriorAnswers(msgs) ==
    LET as == SelectSeq(msgs, IsAnswer)
    IN [i \in 1..Len(as) |-> as[i].content.text]

\* C14: whenever the integrity assessor is called, its style-comparison
\* context is the last min(3, n) of the n prior candidate answers (messages
\* handled as Answer) of the loaded history, in order; empty for the first
\* answer
C14_ContextIsLastThreeAnswers ==
    [][\A p \in Procs :
          (/\ req[p].pc = "send_candidate"
           /\ req'[p].calls.integrity = 1) =>
              LET prior == PriorAnswers(Snapshot(p))
                  n == Len(prior)
                  m == IF n < 3 THEN n ELSE 3
              IN req'[p].context = SubSeq(prior, n - m + 1, n)]_vars

\* a step of a process_candidate_message call in slot p
PipelineStep(p) == req'[p] # req[p] /\ req'[p].op = "send"

\* C15: every step of process_candidate_message, in every branch and whether
\* the call returns or fails, leaves status, match analysis, link token (and
\* its expiry) and report of the session unchanged; a call that reports
\* interview_complete = true ends with the status still IN_PROGRESS
C15_PipelineLeavesSessionRow ==
    [][\A p \in Procs :
          PipelineStep(p) =>
              /\ interview'.status = interview.status
              /\ interview'.match_analysis_json = interview.match_analysis_json
              /\ interview'.candidate_link_token =
                     interview.candidate_link_token
              /\ interview'.report_json = interview.report_json
              /\ token_expires_at' = token_expires_at
              /\ (req'[p].pc = "done" /\ req'[p].complete) =>
                     interview'.status = "IN_PROGRESS"]_vars

C15_Witness ==
    /\ interview.status = "IN_PROGRESS"
    /\ interview.match_analysis_json # None
    /\ interview.candidate_link_token # None
    /\ interview.report_json = None
    /\ Len(messages) > 0
    /\ messages[Len(messages)].content = ClosingText
    /\ \E p \in Procs :
          /\ req[p].op = "send"
          /\ req[p].pc = "done"
          /\ req[p].complete

\* C16: a call classified Clarification or OffTopic that returned has
\* persisted the candidate message without score and cheat certainty, then
\* one assistant message without question number that restates the text of
\* the current question; it called neither evaluator, integrity assessor nor
\* generator, and current question and questions-asked count are as before
C16_SideBranchesRestateQuestion ==
    \A p \in Procs :
        (/\ req[p].op = "send"
         /\ req[p].pc = "done"
         /\ req[p].cls \in {"Clarification", "OffTopic"}) =>
            LET n == Len(messages)
                before == SubSeq(messages, 1, n - 2)
                cur == LastQuestionIndex(before, n - 2)
            IN /\ req[p].outcome = "ok"
               /\ n >= 2 /\ cur # 0
               /\ messages[n - 1].role = "candidate"
               /\ messages[n - 1].answer_quality_score = NoScore
               /\ messages[n - 1].cheat_certainty = NoCheat
               /\ messages[n].role = "assistant"
               /\ messages[n].question_number = 0
               /\ messages[n].content.kind \in {"clarification", "redirect"}
               /\ messages[n].content.text = before[cur].content.text
               /\ req[p].calls.classify = 1
               /\ req[p].calls.evaluate = 0
               /\ req[p].calls.integrity = 0
               /\ req[p].calls.generate = 0
               /\ ~req[p].complete
               /\ LastQuestionIndex(messages, n) = cur
               /\ QuestionsAsked(messages) = QuestionsAsked(before)

C16_Witness ==
    /\ \E p \in Procs :
          /\ req[p].op = "send"
          /\ req[p].pc = "done"
          /\ req[p].cls = "OffTopic"
          /\ req[p].telemetry = <<TRUE, 5000>>
    /\ Len(messages) > 0
    /\ messages[Len(messages)].content.kind = "redirect"
    /\ \E i \in 1..Len(messages) : messages[i].content.kind = "clarification"

\* C17: a call that returns a result appended exactly two rows to the rows it
\* loaded: first (candidate step) the candidate's message, then (reply step)
\* exactly one assistant message, which is a next question, the closing
\* message, a clarification or a redirect; its other steps append nothing
C17_CandidateThenOneReply ==
    [][\A p \in Procs :
          /\ (req[p].pc = "send_candidate" /\ req'[p].pc = "send_reply") =>
                 /\ Len(messages) = req[p].nmsgs
                 /\ Len(Appended) = 1
                 /\ Appended[1].role = "candidate"
          /\ (/\ req[p].pc = "send_reply"
              /\ req'[p].pc = "done"
              /\ req'[p].outcome = "ok") =>
                 /\ Len(messages') = req[p].nmsgs + 2
                 /\ SubSeq(messages', 1, req[p].nmsgs) = Snapshot(p)
                 /\ messages'[req[p].nmsgs + 1].role = "candidate"
                 /\ Len(Appended) = 1
                 /\ Appended[1].role = "assistant"
                 /\ Appended[1].content.kind \in
                        {"question", "closing", "clarification", "redirect"}
                 /\ req'[p].persisted = 2
          /\ (PipelineStep(p) /\ req[p].pc \notin {"send_candidate", "send_reply"})
                 => messages' = messages]_vars

C17_Witness ==
    /\ Len(messages) = 4
    /\ messages[3].role = "candidate"
    /\ messages[4].role = "assistant"
    /\ \E p \in Procs :
          /\ req[p].op = "send"
          /\ req[p].pc = "done"
          /\ req[p].outcome = "ok"
          /\ req[p].persisted = 2

\* C18: a call on a session whose status is DRAFT, READY, ASSIGNED or
\* COMPLETED ends at its first step with the not-in-progress error, before any
\* collaborator is called and with no message persisted
C18_NotInProgressRejected ==
    [][\A p \in Procs :
          (/\ PipelineStep(p)
           /\ req[p].op = "idle"
           /\ interview.status \in {"DRAFT", "READY", "ASSIGNED", "COMPLETED"})
              => /\ req'[p].pc = "done"
                 /\ req'[p].outcome = "not_in_progress"
                 /\ req'[p].calls = NoCalls
                 /\ req'[p].persisted = 0
                 /\ messages' = messages
                 /\ interview' = interview]_vars

C18_Witness ==
    /\ interview.status = "COMPLETED"
    /\ \E p \in Procs :
          /\ req[p].op = "send"
          /\ req[p].pc = "done"
          /\ req[p].outcome = "not_in_progress"

\* an Answer-branch call reported interview_complete = true for the session:
\* its closing message is among the rows
ReportedComplete == \E i \in 1..Len(messages) : messages[i].content = ClosingText

\* C19: the status becomes COMPLETED only in the commit of a
\* complete_interview call, and only when an Answer-branch call has already
\* reported interview_complete = true for the session
C19_CompletedOnlyAfterLastTurn ==
    [][(interview'.status = "COMPLETED" /\ interview.status # "COMPLETED") =>
          /\ \E p \in Procs : /\ req[p].op = "complete"
                              /\ req[p].pc = "complete_commit"
                              /\ req'[p].outcome = "ok"
          /\ ReportedComplete]_vars

\* C20: a candidate-facing request (start_interview, send_message,
\* get_messages) that succeeded presented the link token of the session;
\* for send_message and get_messages, during which the clock stands still,
\* the token is unexpired (start_interview checks the expiry in its first
\* step, see C5)
C20_CandidateAccessByUnexpiredToken ==
    \A p \in Procs :
        (/\ req[p].op \in {"start", "send", "messages"}
         /\ req[p].pc = "done"
         /\ req[p].outcome = "ok") =>
            /\ Found
            /\ req[p].token # None
            /\ req[p].token = interview.candidate_link_token
            /\ req[p].op # "start" =>
                   /\ token_expires_at # NoExpiry
                   /\ ~(token_expires_at < now)

\* the exceptions of the services by the handler that answers them:
\* ValueError (the "except ValueError" of every endpoint) and
\* StateTransitionError (exception handler of main.py) give 400, a returned
\* result 200, any other exception 500
ValueErrors ==
    {"not_found", "not_draft", "invalid_token", "expired", "not_in_progress",
     "no_current_question"}
StateTransitionErrors == {"invalid_transition", "precondition_not_met"}
HttpStatus(outcome) ==
    IF outcome = "ok" THEN 200
    ELSE IF outcome \in ValueErrors \cup StateTransitionErrors THEN 400
         ELSE 500

\* the status each lifecycle operation of InterviewService transitions to
TargetStatus ==
    [analyze |-> "READY", assign |-> "ASSIGNED", start |-> "IN_PROGRESS",
     complete |-> "COMPLETED"]

\* C21: a lifecycle operation (analyze_match, assign_interview,
\* start_interview with the session's token, complete_interview) invoked on
\* an existing session whose status is not the legal predecessor of its
\* target ends, unless its collaborator fails, with HTTP 400, and leaves the
\* persisted row and the messages unchanged
C21_WrongStatusIsClientError ==
    [][\A p \in Procs :
          LET r == req'[p]
              invoked ==
                  \/ /\ IsIdle(p)
                     /\ r.op \in {"analyze", "assign", "start"}
                     /\ Found
                     /\ ~can_transition(interview.status, TargetStatus[r.op])
                     /\ r.outcome # "invalid_token"
                  \/ /\ req[p].pc = "complete_report"
                     /\ r # req[p]
                     /\ ~can_transition(req[p].iv.status,
                                        TargetStatus["complete"])
          IN invoked =>
                /\ interview' = interview
                /\ messages' = messages
                /\ r.pc = "done"
                /\ r.outcome \notin {"collaborator_failed", "report_failed"}
                       => HttpStatus(r.outcome) = 400]_vars

\* C22: in every persisted state of the session, READY and every later
\* status has the match analysis, ASSIGNED and every later status has the
\* link token, and COMPLETED has the report
C22_StatusImpliesPreconditions ==
    /\ interview.status \in {"READY", "ASSIGNED", "IN_PROGRESS", "COMPLETED"}
           => interview.match_analysis_json # None
    /\ interview.status \in {"ASSIGNED", "IN_PROGRESS", "COMPLETED"}
           => interview.candidate_link_token # None
    /\ interview.status = "COMPLETED" => interview.report_json # None

C22_Witness ==
    /\ interview.status = "COMPLETED"
    /\ interview.match_analysis_json = "analysis"
    /\ interview.candidate_link_token \in Procs
    /\ interview.report_json = "report"

\* C23 as claimed: a question number is present only on assistant messages
\* that pose a new question
C23_QuestionNumberOnlyOnQuestions ==
    \A i \in 1..Len(messages) :
        messages[i].question_number # 0 =>
            /\ messages[i].role = "assistant"
            /\ messages[i].content.kind = "question"

\* C23 amended: a question number is present only on assistant messages that
\* pose a new question and on candidate messages handled in the Answer
\* branch, which carry the number of the question they answer; introduction,
\* closing, clarification and redirect messages and Clarification / OffTopic
\* candidate messages carry none
C23_QuestionNumberOnQuestionsAndAnswers ==
    \A i \in 1..Len(messages) :
        messages[i].question_number # 0 =>
            \/ /\ messages[i].role = "assistant"
               /\ messages[i].content.kind = "question"
            \/ /\ messages[i].role = "candidate"
               /\ messages[i].answer_quality_score # NoScore
               /\ LastQuestionIndex(messages, i - 1) # 0
               /\ messages[i].question_number =
                      messages[LastQuestionIndex(messages, i - 1)].question_number

C23_Witness ==
    /\ \E i \in 1..Len(messages) :
          /\ messages[i].role = "candidate"
          /\ messages[i].question_number = 1
    /\ \E i \in 1..Len(messages) :
          /\ messages[i].role = "candidate"
          /\ messages[i].question_number = 0
    /\ \E i \in 1..Len(messages) :
          /\ messages[i].content.kind = "redirect"
          /\ messages[i].question_number = 0
    /\ \E i \in 1..Len(messages) : messages[i].content = ClosingText

\* C24: the non-null candidate_link_token values of the persisted sessions
\* are pairwise distinct
C24_TokensPairwiseDistinct ==
    \A s, o \in SessionIds :
        (/\ s # o
         /\ sessions[s].row.candidate_link_token # None
         /\ sessions[o].row.candidate_link_token # None) =>
            sessions[s].row.candidate_link_token #
                sessions[o].row.candidate_link_token

C24_Witness ==
    \E s, o, x \in SessionIds :
        /\ sessions[s].row.status = "ASSIGNED"
        /\ sessions[o].row.status = "ASSIGNED"
        /\ sessions[s].row.candidate_link_token = "t1"
        /\ sessions[o].row.candidate_link_token = "t2"
        /\ sessions[x].row.status = "READY"
        /\ sessions[x].outcome = "integrity_error"

\* C25: no step changes target_questions or difficulty_start of an existing
\* session, and every generate_question call (first question, next
\* question) receives the session's difficulty_start
C25_ConfigurationIsFixed ==
    [][/\ Found =>
              /\ interview'.target_questions = interview.target_questions
              /\ interview'.difficulty_start = interview.difficulty_start
       /\ \A p \in Procs :
              (req[p].calls.generate = 0 /\ req'[p].calls.generate = 1) =>
                  req'[p].difficulty = interview.difficulty_start]_vars

C25_Witness ==
    /\ interview.target_questions = 2
    /\ interview.difficulty_start = 3
    /\ \E p \in Procs :
          /\ req[p].op = "send"
          /\ req[p].pc = "done"
          /\ req[p].calls.generate = 1
          /\ req[p].difficulty = 3
    /\ \E i \in 1..Len(messages) : messages[i].question_number = 2

\* C26: every step leaves the rows persisted so far in place: the message
\* list after the step has the list before it as a prefix
C26_MessagesAppendOnly ==
    [][/\ Len(messages') >= Len(messages)
       /\ SubSeq(messages', 1, Len(messages)) = messages]_vars

\* C27: the current question a call works with is the content (and number)
\* of the last row, in the order get_messages returned, that is an assistant
\* row with a question number; candidate rows and assistant rows without a
\* question number after it do not change it
C27_CurrentQuestionIsLastNumbered ==
    [][\A p \in Procs :
          (req[p].pc = "send_history" /\ req'[p].pc = "send_candidate") =>
              \E i \in 1..Len(messages) :
                  /\ messages[i].role = "assistant"
                  /\ messages[i].question_number # 0
                  /\ \A j \in (i + 1)..Len(messages) :
                         \/ messages[j].role = "candidate"
                         \/ messages[j].question_number = 0
                  /\ req'[p].last_question = messages[i].content
                  /\ req'[p].question_number = messages[i].question_number]_vars

C27_Witness ==
    \E p \in Procs :
        /\ req[p].pc = "send_candidate"
        /\ req[p].nmsgs = 4
        /\ req[p].history[2].content = req[p].last_question
        /\ req[p].history[3].role = "candidate"
        /\ req[p].history[3].question_number = 0
        /\ req[p].history[4].content.kind = "clarification"

\* C28: the chat history an Answer-branch call passes to the question
\* generator is the role-prefixed sequence of all rows persisted at the time
\* of the call, the candidate answer persisted by this call included
C28_ChatHistoryHasAllMessages ==
    [][\A p \in Procs :
          (/\ req[p].pc = "send_reply"
           /\ req'[p].pc = "done"
           /\ req'[p].calls.generate = 1) =>
              /\ Len(req'[p].chat_history) = Len(messages)
              /\ \A i \in 1..Len(messages) :
                     req'[p].chat_history[i] =
                         <<messages[i].role, messages[i].content>>]_vars

\* C29: the candidate row a call persists carries answer_quality_score only
\* when the call evaluated it in the Answer branch, and cheat_certainty only
\* when the call ran the integrity assessor, which it does only on telemetry
\* with paste_detected or response_time_ms < 5000; the rows of the
\* Clarification and OffTopic branches and every assistant row carry neither
C29_ScoresOnlyWhereAssessed ==
    [][/\ \A p \in Procs :
              (req[p].pc = "send_candidate" /\ req'[p].pc = "send_reply") =>
                  LET row == messages'[req[p].txn + 1]
                  IN /\ row.role = "candidate"
                     /\ row.answer_quality_score # NoScore =>
                            /\ req'[p].cls = "Answer"
                            /\ req'[p].calls.evaluate = 1
                     /\ row.cheat_certainty # NoCheat =>
                            /\ req'[p].cls = "Answer"
                            /\ req'[p].calls.integrity = 1
                     /\ req'[p].cls # "Answer" =>
                            /\ row.answer_quality_score = NoScore
                            /\ row.cheat_certainty = NoCheat
       /\ \A i \in 1..Len(messages') :
              LET m == messages'[i]
              IN /\ m.role = "assistant" =>
                     /\ m.answer_quality_score = NoScore
                     /\ m.cheat_certainty = NoCheat
                 /\ m.cheat_certainty # NoCheat =>
                     /\ m.answer_quality_score # NoScore
                     /\ \/ m.telemetry[1]
                        \/ m.telemetry[2] < 5000]_vars

\* an evaluated and assessed answer, next to a clarification request that
\* was pasted and carries neither value
C29_Witness ==
    /\ \E i \in 1..Len(messages) :
           /\ messages[i].role = "candidate"
           /\ messages[i].answer_quality_score # NoScore
           /\ messages[i].cheat_certainty # NoCheat
    /\ \E i \in 1..Len(messages) :
           /\ messages[i].role = "candidate"
           /\ messages[i].telemetry[1]
           /\ messages[i].answer_quality_score = NoScore
           /\ messages[i].cheat_certainty = NoCheat
           /\ i < Len(messages)
           /\ messages[i + 1].content.kind = "clarification"
    /\ \E i \in 1..Len(messages) :
           /\ messages[i].role = "candidate"
           /\ messages[i].answer_quality_score # NoScore
           /\ messages[i].cheat_certainty = NoCheat

\* C30: complete_interview hands the report synthesizer one score entry for
\* each candidate row that carries answer_quality_score and for no other row,
\* in row order, and a telemetry summary whose total is the number of rows
\* and whose paste count is the number of rows with paste_detected true
C30_ReportInputs ==
    [][\A p \in Procs :
          (req[p].pc = "complete_report" /\ req'[p].pc # "complete_report") =>
              LET scored == {i \in 1..Len(messages) :
                                /\ messages[i].role = "candidate"
                                /\ messages[i].answer_quality_score # NoScore}
                  pasted == {i \in 1..Len(messages) :
                                /\ messages[i].telemetry # <<>>
                                /\ messages[i].telemetry[1]}
                  inputs == req'[p].report_inputs
              IN /\ Len(inputs.question_scores) = Cardinality(scored)
                 /\ \A i \in scored :
                        LET k == Cardinality({j \in scored : j <= i})
                        IN /\ inputs.question_scores[k].score =
                                  messages[i].answer_quality_score
                           /\ inputs.question_scores[k].rationale =
                                  messages[i].question_number
                 /\ inputs.telemetry_summary.total = Len(messages)
                 /\ inputs.telemetry_summary.paste_events =
                        Cardinality(pasted)]_vars

\* a report built from two scored answers, one of them pasted, among
\* assistant rows that carry no score
C30_Witness ==
    \E p \in Procs :
        /\ req[p].op = "complete"
        /\ req[p].pc = "complete_commit"
        /\ Len(req[p].report_inputs.question_scores) = 2
        /\ req[p].report_inputs.question_scores[1].rationale = 1
        /\ req[p].report_inputs.question_scores[2].rationale = 2
        /\ req[p].report_inputs.telemetry_summary.paste_events = 1
        /\ req[p].report_inputs.telemetry_summary.total = Len(messages)
        /\ Len(messages) > 4

ReadyOrLater == {"READY", "ASSIGNED", "IN_PROGRESS", "COMPLETED"}

\* C31: once the persisted status is READY or later, an arriving upload
\* fails, and no step of any upload request, whenever it arrived, changes the
\* stored document paths or the stored match analysis
C31_UploadTakesEffectOnce ==
    [][interview.status \in ReadyOrLater =>
          /\ interview'.documents = interview.documents
          /\ interview'.match_analysis_json = interview.match_analysis_json
          /\ \A p \in Procs :
                 (req[p].op = "idle" /\ req'[p].op = "upload") =>
                     /\ req'[p].pc = "done"
                     /\ req'[p].outcome = "not_draft"]_vars

C33_QuestionsWithinTarget ==
    Found =>
        Cardinality({i \in 1..Len(messages) :
                        /\ messages[i].role = "assistant"
                        /\ messages[i].question_number # 0})
            <= interview.target_questions

\* both questions of a session of two have been asked and answered, and the
\* second answer was closed instead of followed by a third question
C33_Witness ==
    /\ interview.target_questions = 2
    /\ Len(messages) = 6
    /\ messages[2].question_number = 1
    /\ messages[3].role = "candidate"
    /\ messages[4].question_number = 2
    /\ messages[5].role = "candidate"
    /\ messages[6].content = ClosingText
    /\ \E p \in Procs : req[p].pc = "done" /\ req[p].op = "send"

C35_CompletedIsFinal ==
    [][interview.status = "COMPLETED" =>
          /\ interview'.status = "COMPLETED"
          /\ interview'.report_json = interview.report_json
          /\ messages' = messages]_vars

\* C38: an Answer-classified message whose telemetry has no response_time_ms
\* and paste_detected false is processed without error when no collaborator
\* fails: the absent time counts as 0, so the integrity assessor is called,
\* and the candidate message and the reply are persisted
C38_AbsentResponseTimeIsZero ==
    \A p \in Procs :
        (/\ req[p].op = "send"
         /\ req[p].pc = "done"
         /\ req[p].cls = "Answer"
         /\ req[p].telemetry = <<FALSE, NoneRT>>
         /\ req[p].outcome \notin {"evaluate_failed", "integrity_failed",
                                   "generate_failed"}) =>
            /\ req[p].outcome = "ok"
            /\ req[p].calls.integrity = 1
            /\ req[p].persisted = 2

\* C36: once an Answer-branch call has reported interview_complete = true
\* (its closing message is in the history a later call loads), every later
\* Answer-classified call whose collaborators do not fail reports
\* interview_complete = true again and adds no question, whatever
\* Clarification and OffTopic calls came in between
C36_CompletionIsSticky ==
    [][\A p \in Procs :
          (/\ req[p].op = "send"
           /\ req[p].pc \in {"send_candidate", "send_reply"}
           /\ req'[p].pc = "done"
           /\ req'[p].cls = "Answer"
           /\ \E i \in 1..Len(Snapshot(p)) :
                  Snapshot(p)[i].content = ClosingText
           /\ req'[p].outcome \notin {"evaluate_failed", "integrity_failed"}) =>
              /\ req'[p].outcome = "ok"
              /\ req'[p].complete
              /\ req'[p].calls.generate = 0
              /\ QuestionsAsked(messages') = QuestionsAsked(messages)]_vars

\* C37: once a successful assign_interview has stored the candidate link
\* token, the token and its expiration never change, every later
\* assign_interview fails, and no start gets past the expiry check after the
\* expiration
C37_TokenAndExpiryAreFinal ==
    [][interview.candidate_link_token # None =>
          /\ interview'.candidate_link_token = interview.candidate_link_token
          /\ token_expires_at' = token_expires_at
          /\ \A p \in Procs :
                 /\ (IsIdle(p) /\ req'[p].op = "assign") =>
                        /\ req'[p].pc = "done"
                        /\ req'[p].outcome # "ok"
                 /\ (IsIdle(p) /\ req'[p].pc = "start_commit") =>
                        ~(token_expires_at < now)]_vars

====
